---- MODULE Spec2Model ----
(***************************************************************************)
(* Authentication, token lifecycle and request gate of the agritourism     *)
(* directory application.  Every await on the database in a route handler  *)
(* is one atomic step of the request that runs it; two requests run        *)
(* concurrently and interleave at these steps.                             *)
(***************************************************************************)
EXTENDS Integers, Sequences, FiniteSets, TLC

\* ---------------------------------------------------------------- bounds
MaxUsers  == 3   \* account ids handed out, the seeded admin included
MaxTokens == 3   \* token values handed out by makeToken
MaxEvents == 3        \* requests received and clock advances under Spec
MaxAdminEvents == 5   \* the same under SpecAdmin
MaxCreateEvents == 5  \* the same under SpecCreate
MaxAuditEvents == 3   \* the same under SpecAudit
MaxTokenEvents == 5   \* the same under SpecTokens
MaxInviteEvents == 4  \* the same under SpecInvites
MaxAccessEvents == 4  \* the same under SpecAccess
MaxRequestEvents == 4 \* the same under SpecRequests

\* ------------------------------------------------------ program constants
EvTTL  == 24     \* hours, issueEmailVerificationToken
PrTTL  == 1      \* hours, issuePasswordResetToken
InvTTL == 168    \* hours, issueInviteToken

Procs == {"p1", "p2"}

Roles == {"VISITOR", "OWNER", "EDITOR", "ADMIN"}

\* a nullable column or field is a sequence of length 0 or 1
Null    == <<>>
Some(x) == <<x>>

AdminEmail  == "admin@example.com"
AdminSecret == "Admin123!"

\* request inputs; "" is a missing field
UserEmails == {"a@x.com", " A@X.com"}
OtherEmail == "b@x.com"
RegisterSecret == "S1"
ResetSecret    == "S2"
\* clock advances that reach a token's expiry exactly and pass it
TickSteps  == {PrTTL, PrTTL + 1, EvTTL, EvTTL + 1, InvTTL, InvTTL + 1}

\* String(email).toLowerCase().trim() on the inputs above
Normalize(e) == IF e = " A@X.com" THEN "a@x.com" ELSE e

\* bcrypt.hash / bcrypt.compare: the hash is not the secret, and compare
\* accepts exactly the secret that was hashed
Hash(s)       == <<"bcrypt", s>>
Compare(p, h) == h = Hash(p)

VARIABLES
  now,        \* the clock read by new Date() / Date.now(), in hours
  users,      \* table User
  nextId,     \* next fresh account id
  evTokens,   \* table EmailVerificationToken
  prTokens,   \* table PasswordResetToken
  invTokens,  \* table InviteToken
  nextTok,    \* next fresh token value
  sessions,   \* JWT claim bundles minted so far
  proc,       \* per request slot: the handler running and its locals
  last,       \* the response returned by the step just taken, if any
  origin,     \* history: which operation created each account id
  issued,     \* history: per token value, what it was issued with and how
              \* many consume calls returned its email
  effects,    \* history: account changes made on behalf of a token
  budget,     \* requests and clock advances that may still happen
  gate,       \* a request at the gate: path, claims and the decision
  rbac,       \* a call of hasRole: its arguments and its results
  auditFails, \* whether the writes to table ActivityLog fail in this run
  status,     \* column User.status of the accounts whose status was set
  index,      \* data/requests/index.json: the list of request items
  acks        \* history: the ok answers of POST and PATCH /api/requests

vars == <<now, users, nextId, evTokens, prTokens, invTokens, nextTok,
          sessions, proc, last, origin, issued, effects, budget, gate, rbac,
          auditFails, status, index, acks>>

dbVars    == <<users, nextId, evTokens, prTokens, invTokens, nextTok, origin>>
tokVars   == <<evTokens, prTokens, invTokens, nextTok>>
userVars  == <<users, nextId, origin>>
storeVars == <<status, index, acks>>
envVars   == <<now, gate, rbac, auditFails>>
clockVars == <<now, gate, rbac, auditFails, storeVars>>
histVars  == <<issued, effects>>

Idle == [op |-> "idle"]

Resp(op, outcome, ctx) ==
  [op |-> op, outcome |-> outcome, ctx |-> ctx]

\* no response is returned by the step
NoResp == Resp("none", "none", Null)

\* a request arrives or the clock advances
Begin == budget > 0 /\ budget' = budget - 1

\* prisma findUnique
UserByEmail(e) == {u \in users : u.email = e}
UserById(i)    == {u \in users : u.id = i}
EvByToken(t)   == {r \in evTokens : r.token = t}
PrByToken(t)   == {r \in prTokens : r.token = t}
InvByToken(t)  == {r \in invTokens : r.token = t}

\* token values a client can present: those issued so far, a value that was
\* never issued (0), or none at all
TokenInputs == {Some(t) : t \in 0..(nextTok - 1)} \cup {Null}

\* prisma delete({ where: { token } }): throws when no row matches,
\* otherwise removes the row
DeleteNeverThrows(rows) == FALSE

DeleteThrows(rows) == rows = {}

DeleteKeepsRow(table, t) == table

DeleteRow(table, t) == {r \in table : r.token # t}

\* the check `row.expires < new Date()` of the consume functions and of the
\* invite check in the registration handler
Expired(row, t) == row.expires < t

\* prisma/seed.cjs
SeedAdmin ==
  [id |-> 1, email |-> AdminEmail, passwordHash |-> Some(Hash(AdminSecret)),
   role |-> "ADMIN", emailVerified |-> Some(0), deletedAt |-> Null]

NoGate == [path |-> <<>>, claims |-> Null, decision |-> "none"]

NoRbac == [a |-> "", b |-> "", c |-> "", called |-> FALSE,
           ab |-> FALSE, ba |-> FALSE, bc |-> FALSE, ac |-> FALSE]

InitDb ==
  /\ now = 0
  /\ users = {SeedAdmin}
  /\ nextId = 2
  /\ evTokens = {}
  /\ prTokens = {}
  /\ invTokens = {}
  /\ nextTok = 1
  /\ sessions = {}
  /\ proc = [p \in Procs |-> Idle]
  /\ last = NoResp
  /\ origin = <<"seed">>
  /\ issued = <<>>
  /\ effects = {}
  /\ status = {}
  /\ index = <<>>
  /\ acks = <<>>

Init ==
  /\ InitDb
  /\ budget = MaxEvents
  /\ gate = NoGate
  /\ rbac = NoRbac
  /\ auditFails = FALSE

InitAdmin ==
  /\ InitDb
  /\ budget = MaxAdminEvents
  /\ gate = NoGate
  /\ rbac = NoRbac
  /\ auditFails = FALSE

LogActivityRethrows(fails) == IF fails THEN "thrown" ELSE "returned"

\* logActivity: the write to ActivityLog is inside try/catch, and the catch
\* block is empty
LogActivity(fails) == "returned"

\* the answer of a handler that awaits logActivity before it answers
Audited(outcome) ==
  IF LogActivity(auditFails) = "thrown" THEN "audit exception" ELSE outcome

CreateNeverThrows(email) == FALSE

\* prisma.user.create throws when the unique index User_email_key already
\* holds the email
CreateThrows(email) == UserByEmail(email) # {}

InitCreate ==
  /\ InitDb
  /\ budget = MaxCreateEvents
  /\ gate = NoGate
  /\ rbac = NoRbac
  /\ auditFails = FALSE

InitAudit ==
  /\ InitDb
  /\ budget = MaxAuditEvents
  /\ gate = NoGate
  /\ rbac = NoRbac
  /\ auditFails \in BOOLEAN

InitTokens ==
  /\ InitDb
  /\ budget = MaxTokenEvents
  /\ gate = NoGate
  /\ rbac = NoRbac
  /\ auditFails = FALSE

InitInvites ==
  /\ InitDb
  /\ budget = MaxInviteEvents
  /\ gate = NoGate
  /\ rbac = NoRbac
  /\ auditFails = FALSE

\* history: the id of the account that has the email when a token is issued
\* for it, 0 when there is none
Holder(email) ==
  IF UserByEmail(email) = {} THEN 0
  ELSE (CHOOSE u \in UserByEmail(email) : TRUE).id

InitAccess ==
  /\ InitDb
  /\ budget = MaxAccessEvents
  /\ gate = NoGate
  /\ rbac = NoRbac
  /\ auditFails = FALSE

InitRequests ==
  /\ InitDb
  /\ budget = MaxRequestEvents
  /\ gate = NoGate
  /\ rbac = NoRbac
  /\ auditFails = FALSE

\* the clock advances by d hours
Tick(d) ==
  /\ Begin
  /\ now' = now + d
  /\ last' = NoResp
  /\ UNCHANGED <<dbVars, sessions, proc, histVars, gate, rbac, auditFails,
                 storeVars>>

\* makeToken + create of the three issue functions
IssueEv(email) ==
  /\ evTokens' = evTokens \cup
       {[token |-> nextTok, email |-> email, expires |-> now + EvTTL]}
  /\ nextTok' = nextTok + 1
  /\ issued' = Append(issued, [kind |-> "verify", email |-> email,
                               role |-> "", returns |-> 0,
                               holder |-> Holder(email)])

IssuePrReplacesOlder(email) ==
  /\ prTokens' = {r \in prTokens : r.email # email} \cup
       {[token |-> nextTok, email |-> email, expires |-> now + PrTTL]}
  /\ nextTok' = nextTok + 1
  /\ issued' = Append(issued, [kind |-> "reset", email |-> email,
                               role |-> "", returns |-> 0,
                               holder |-> Holder(email)])

IssuePr(email) ==
  /\ prTokens' = prTokens \cup
       {[token |-> nextTok, email |-> email, expires |-> now + PrTTL]}
  /\ nextTok' = nextTok + 1
  /\ issued' = Append(issued, [kind |-> "reset", email |-> email,
                               role |-> "", returns |-> 0,
                               holder |-> Holder(email)])

IssueInvite(email, role) ==
  /\ invTokens' = invTokens \cup
       {[token |-> nextTok, email |-> email, role |-> role,
         expires |-> now + InvTTL, usedAt |-> Null]}
  /\ nextTok' = nextTok + 1
  /\ issued' = Append(issued, [kind |-> "invite", email |-> email,
                               role |-> role, returns |-> 0,
                               holder |-> Holder(email)])

\* ------------------------------------------------------------------------
\* POST /api/auth/register
\* ------------------------------------------------------------------------
MailOutcomes == {"sent", "failed"}

RegCtx(email, invite, inv, at, id, role, late) ==
  [email |-> email, invite |-> invite, inv |-> inv, at |-> at, id |-> id,
   role |-> role, late |-> late]

\* history: the invite presented was already marked used when the request
\* arrived
Late(invite) ==
  /\ invite # Null
  /\ \E r \in invTokens : r.token = invite[1] /\ r.usedAt # Null

\* `!inv || inv.expires < new Date() || inv.usedAt`
InviteInvalidIgnoresUsed(inv, t) == inv = Null \/ Expired(inv[1], t)

InviteInvalid(inv, t) ==
  inv = Null \/ Expired(inv[1], t) \/ inv[1].usedAt # Null

\* req.json, the missing-field check and the lookup of an existing account
RegisterStart(p, email, password, invite, as) ==
  /\ Begin
  /\ proc[p] = Idle
  /\ LET normalized == Normalize(email)
     IN IF email = "" \/ password = ""
        THEN /\ last' = Resp("register", "Missing fields",
                             RegCtx(normalized, invite, Null, now, 0, "",
                                    Late(invite)))
             /\ UNCHANGED proc
        ELSE IF UserByEmail(normalized) # {}
        THEN /\ last' = Resp("register", "Email already in use",
                             RegCtx(normalized, invite, Null, now, 0, "",
                                    Late(invite)))
             /\ UNCHANGED proc
        ELSE /\ proc' = [proc EXCEPT ![p] =
                  [op |-> "register", email |-> normalized,
                   password |-> password, invite |-> invite,
                   pc |-> IF invite # Null THEN "invite" ELSE "create",
                   role |-> IF invite = Null /\ as = "owner"
                            THEN "OWNER" ELSE "VISITOR",
                   inv |-> Null, at |-> now, id |-> 0,
                   late |-> Late(invite), as |-> as]]
             /\ last' = NoResp
  /\ UNCHANGED <<clockVars, dbVars, sessions, histVars>>

RegisterInviteMarksFirst(p) ==
  /\ UNCHANGED budget
  /\ proc[p].op = "register" /\ proc[p].pc = "invite"
  /\ LET rows == InvByToken(proc[p].invite[1])
         inv  == IF rows = {} THEN Null ELSE Some(CHOOSE r \in rows : TRUE)
         ctx  == RegCtx(proc[p].email, proc[p].invite, inv, now, 0, "",
                        proc[p].late)
     IN /\ invTokens' = {IF r.token = proc[p].invite[1]
                         THEN [r EXCEPT !.usedAt = Some(now)]
                         ELSE r : r \in invTokens}
        /\ IF InviteInvalid(inv, now)
           THEN /\ last' = Resp("register", "Invite invalid or expired", ctx)
                /\ proc' = [proc EXCEPT ![p] = Idle]
           ELSE IF inv[1].email # proc[p].email
           THEN /\ last' = Resp("register", "Invite email mismatch", ctx)
                /\ proc' = [proc EXCEPT ![p] = Idle]
           ELSE /\ proc' = [proc EXCEPT ![p].pc = "create",
                                        ![p].role = inv[1].role,
                                        ![p].inv = inv,
                                        ![p].at = now]
                /\ last' = NoResp
  /\ UNCHANGED <<clockVars, userVars, evTokens, prTokens, nextTok, sessions,
                 histVars>>

\* the invite lookup and its checks
RegisterInvite(p) ==
  /\ UNCHANGED budget
  /\ proc[p].op = "register" /\ proc[p].pc = "invite"
  /\ LET rows == InvByToken(proc[p].invite[1])
         inv  == IF rows = {} THEN Null ELSE Some(CHOOSE r \in rows : TRUE)
         ctx  == RegCtx(proc[p].email, proc[p].invite, inv, now, 0, "",
                        proc[p].late)
     IN IF InviteInvalid(inv, now)
        THEN /\ last' = Resp("register", "Invite invalid or expired", ctx)
             /\ proc' = [proc EXCEPT ![p] = Idle]
        ELSE IF inv[1].email # proc[p].email
        THEN /\ last' = Resp("register", "Invite email mismatch", ctx)
             /\ proc' = [proc EXCEPT ![p] = Idle]
        ELSE /\ proc' = [proc EXCEPT ![p].pc = "create",
                                     ![p].role = inv[1].role,
                                     ![p].inv = inv,
                                     ![p].at = now]
             /\ last' = NoResp
  /\ UNCHANGED <<clockVars, dbVars, sessions, histVars>>

RegisterEmailVerifiedAtCreate(t) == Some(t)

\* the data of the registration's create has no emailVerified: the column
\* is NULL in the new row
RegisterEmailVerified(t) == Null

\* bcrypt.hash and prisma.user.create; the unique index on User.email makes
\* the create throw when the email is taken
RegisterCreate(p) ==
  /\ UNCHANGED budget
  /\ proc[p].op = "register" /\ proc[p].pc = "create"
  /\ IF CreateThrows(proc[p].email)
     THEN /\ last' = Resp("register", "exception",
                          RegCtx(proc[p].email, proc[p].invite, proc[p].inv,
                                 proc[p].at, 0, proc[p].role, proc[p].late))
          /\ proc' = [proc EXCEPT ![p] = Idle]
          /\ UNCHANGED <<userVars, effects>>
     ELSE /\ nextId <= MaxUsers
          /\ users' = users \cup
               {[id |-> nextId, email |-> proc[p].email,
                 passwordHash |-> Some(Hash(proc[p].password)),
                 role |-> proc[p].role,
                 emailVerified |-> RegisterEmailVerified(now),
                 deletedAt |-> Null]}
          /\ nextId' = nextId + 1
          /\ origin' = Append(origin, "register")
          /\ effects' = IF proc[p].inv = Null THEN effects
                        ELSE effects \cup
                               {[kind |-> "invite",
                                 token |-> proc[p].inv[1].token,
                                 at |-> proc[p].at,
                                 expires |-> proc[p].inv[1].expires,
                                 user |-> nextId]}
          /\ proc' = [proc EXCEPT ![p].id = nextId,
                        ![p].pc = IF proc[p].invite # Null
                                  THEN "mark" ELSE "issue"]
          /\ last' = NoResp
  /\ UNCHANGED <<clockVars, tokVars, sessions, issued>>

\* prisma.inviteToken.update({ data: { usedAt: new Date() } })
RegisterMark(p) ==
  /\ UNCHANGED budget
  /\ proc[p].op = "register" /\ proc[p].pc = "mark"
  /\ LET t == proc[p].invite[1]
     IN invTokens' = {IF r.token = t THEN [r EXCEPT !.usedAt = Some(now)]
                      ELSE r : r \in invTokens}
  /\ proc' = [proc EXCEPT ![p].pc = "issue"]
  /\ last' = NoResp
  /\ UNCHANGED <<clockVars, userVars, evTokens, prTokens, nextTok, sessions,
                 histVars>>

\* issueEmailVerificationToken, sendVerificationEmail inside try/catch, and
\* the ok response
RegisterIssue(p) ==
  /\ UNCHANGED budget
  /\ proc[p].op = "register" /\ proc[p].pc = "issue"
  /\ nextTok <= MaxTokens
  /\ IssueEv(proc[p].email)
  /\ last' = Resp("register", Audited("ok"),
                  RegCtx(proc[p].email, proc[p].invite, proc[p].inv,
                         proc[p].at, proc[p].id, proc[p].role, proc[p].late))
  /\ proc' = [proc EXCEPT ![p] = Idle]
  /\ UNCHANGED <<clockVars, userVars, prTokens, invTokens, sessions, effects>>

\* ------------------------------------------------------------------------
\* GET /api/auth/verify  (consumeEmailVerificationToken inlined)
\* ------------------------------------------------------------------------
TokCtx(token, row, at, id) ==
  [token |-> token, row |-> row, at |-> at, id |-> id]

VerifyStart(p, token) ==
  /\ Begin
  /\ proc[p] = Idle
  /\ LET rows == IF token = Null THEN {} ELSE EvByToken(token[1])
         row  == IF rows = {} THEN Null ELSE Some(CHOOSE r \in rows : TRUE)
     IN IF token = Null
        THEN /\ last' = Resp("verify", "Missing token",
                             TokCtx(token, Null, now, 0))
             /\ UNCHANGED proc
        ELSE IF row = Null \/ Expired(row[1], now)
        THEN /\ last' = Resp("verify", "Invalid or expired token",
                             TokCtx(token, row, now, 0))
             /\ UNCHANGED proc
        ELSE /\ proc' = [proc EXCEPT ![p] =
                  [op |-> "verify", pc |-> "delete", row |-> row[1],
                   at |-> now]]
             /\ last' = NoResp
  /\ UNCHANGED <<clockVars, dbVars, sessions, histVars>>

\* prisma.emailVerificationToken.delete throws when the row is gone;
\* otherwise consume returns row.email
VerifyDelete(p) ==
  /\ UNCHANGED budget
  /\ proc[p].op = "verify" /\ proc[p].pc = "delete"
  /\ LET t == proc[p].row.token
     IN IF DeleteThrows(EvByToken(t))
        THEN /\ last' = Resp("verify", "exception",
                             TokCtx(Some(t), Some(proc[p].row), proc[p].at, 0))
             /\ proc' = [proc EXCEPT ![p] = Idle]
             /\ UNCHANGED <<evTokens, issued>>
        ELSE /\ evTokens' = DeleteRow(evTokens, t)
             /\ issued' = [issued EXCEPT ![t].returns = @ + 1]
             /\ proc' = [proc EXCEPT ![p].pc = "update"]
             /\ last' = NoResp
  /\ UNCHANGED <<clockVars, userVars, prTokens, invTokens, nextTok, sessions,
                 effects>>

\* prisma.user.update({ where: { email }, data: { emailVerified } })
VerifyUpdate(p) ==
  /\ UNCHANGED budget
  /\ proc[p].op = "verify" /\ proc[p].pc = "update"
  /\ LET found == UserByEmail(proc[p].row.email)
         t == proc[p].row.token
     IN IF found = {}
        THEN /\ last' = Resp("verify", "exception",
                             TokCtx(Some(t), Some(proc[p].row), proc[p].at, 0))
             /\ UNCHANGED <<users, effects>>
        ELSE LET u == CHOOSE x \in found : TRUE
             IN /\ users' = (users \ {u}) \cup
                              {[u EXCEPT !.emailVerified = Some(now)]}
                /\ effects' = effects \cup
                     {[kind |-> "verify", token |-> t,
                       at |-> proc[p].at, expires |-> proc[p].row.expires,
                       user |-> u.id]}
                /\ last' = Resp("verify", Audited("ok"),
                                TokCtx(Some(t), Some(proc[p].row), proc[p].at,
                                       u.id))
  /\ proc' = [proc EXCEPT ![p] = Idle]
  /\ UNCHANGED <<clockVars, nextId, origin, tokVars, sessions, issued>>

\* ------------------------------------------------------------------------
\* POST /api/auth/reset  (consumePasswordResetToken inlined)
\* ------------------------------------------------------------------------
ResetStart(p, token, password) ==
  /\ Begin
  /\ proc[p] = Idle
  /\ LET rows == IF token = Null THEN {} ELSE PrByToken(token[1])
         row  == IF rows = {} THEN Null ELSE Some(CHOOSE r \in rows : TRUE)
     IN IF token = Null \/ password = ""
        THEN /\ last' = Resp("reset", "Missing token or password",
                             TokCtx(token, Null, now, 0))
             /\ UNCHANGED proc
        ELSE IF row = Null \/ Expired(row[1], now)
        THEN /\ last' = Resp("reset", "Invalid or expired token",
                             TokCtx(token, row, now, 0))
             /\ UNCHANGED proc
        ELSE /\ proc' = [proc EXCEPT ![p] =
                  [op |-> "reset", pc |-> "delete", row |-> row[1],
                   password |-> password, at |-> now, id |-> 0]]
             /\ last' = NoResp
  /\ UNCHANGED <<clockVars, dbVars, sessions, histVars>>

\* prisma.passwordResetToken.delete throws when the row is gone
ResetDelete(p) ==
  /\ UNCHANGED budget
  /\ proc[p].op = "reset" /\ proc[p].pc = "delete"
  /\ LET t == proc[p].row.token
     IN IF DeleteThrows(PrByToken(t))
        THEN /\ last' = Resp("reset", "exception",
                             TokCtx(Some(t), Some(proc[p].row), proc[p].at, 0))
             /\ proc' = [proc EXCEPT ![p] = Idle]
             /\ UNCHANGED <<prTokens, issued>>
        ELSE /\ prTokens' = DeleteRow(prTokens, t)
             /\ issued' = [issued EXCEPT ![t].returns = @ + 1]
             /\ proc' = [proc EXCEPT ![p].pc = "find"]
             /\ last' = NoResp
  /\ UNCHANGED <<clockVars, userVars, evTokens, invTokens, nextTok, sessions,
                 effects>>

NotAvailableIgnoresDeleted(found) == found = {}

\* `!user || user.deletedAt`
NotAvailable(found) == found = {} \/ (\E u \in found : u.deletedAt # Null)

\* prisma.user.findUnique({ where: { email } }) and the availability check
ResetFind(p) ==
  /\ UNCHANGED budget
  /\ proc[p].op = "reset" /\ proc[p].pc = "find"
  /\ LET found == UserByEmail(proc[p].row.email)
     IN IF NotAvailable(found)
        THEN /\ last' = Resp("reset", "Account not available",
                             TokCtx(Some(proc[p].row.token), Some(proc[p].row),
                                    proc[p].at, 0))
             /\ proc' = [proc EXCEPT ![p] = Idle]
        ELSE /\ proc' = [proc EXCEPT ![p].pc = "update1",
                           ![p].id = (CHOOSE u \in found : TRUE).id]
             /\ last' = NoResp
  /\ UNCHANGED <<clockVars, dbVars, sessions, histVars>>

ResetDataVerifies(u, hash) ==
  [u EXCEPT !.passwordHash = Some(hash), !.emailVerified = Some(now)]

\* `data: { passwordHash: hash }` of the reset handler's updates
ResetData(u, hash) == [u EXCEPT !.passwordHash = Some(hash)]

\* prisma.user.update({ where: { id }, data: { passwordHash } }); the
\* handler runs it twice and answers ok after the second
ResetUpdate(p) ==
  /\ UNCHANGED budget
  /\ proc[p].op = "reset" /\ proc[p].pc \in {"update1", "update2"}
  /\ LET found == UserById(proc[p].id)
         ctx == TokCtx(Some(proc[p].row.token), Some(proc[p].row), proc[p].at,
                       proc[p].id)
     IN IF found = {}
        THEN /\ last' = Resp("reset", "exception", ctx)
             /\ proc' = [proc EXCEPT ![p] = Idle]
             /\ UNCHANGED <<users, effects>>
        ELSE LET u == CHOOSE x \in found : TRUE
             IN /\ users' = (users \ {u}) \cup
                     {ResetData(u, Hash(proc[p].password))}
                /\ effects' = effects \cup
                     {[kind |-> "reset", token |-> proc[p].row.token,
                       at |-> proc[p].at, expires |-> proc[p].row.expires,
                       user |-> u.id]}
                /\ IF proc[p].pc = "update1" /\ Audited("ok") = "ok"
                   THEN /\ proc' = [proc EXCEPT ![p].pc = "update2"]
                        /\ last' = NoResp
                   ELSE /\ proc' = [proc EXCEPT ![p] = Idle]
                        /\ last' = Resp("reset", Audited("ok"), ctx)
  /\ UNCHANGED <<clockVars, nextId, origin, tokVars, sessions, issued>>

\* ------------------------------------------------------------------------
\* POST /api/auth/reset-request
\* ------------------------------------------------------------------------
RrCtx(email, found, mail) == [email |-> email, found |-> found, mail |-> mail]

ResetRequestStart(p, email) ==
  /\ Begin
  /\ proc[p] = Idle
  /\ LET rows == UserByEmail(Normalize(email))
         found == IF rows = {} THEN Null ELSE Some(CHOOSE u \in rows : TRUE)
     IN IF email = ""
        THEN /\ last' = Resp("reset-request", "Missing email",
                             RrCtx(email, Null, "none"))
             /\ UNCHANGED proc
        ELSE IF found # Null /\ found[1].deletedAt = Null
        THEN /\ proc' = [proc EXCEPT ![p] =
                  [op |-> "reset-request", pc |-> "issue", email |-> email,
                   user |-> found[1]]]
             /\ last' = NoResp
        ELSE /\ last' = Resp("reset-request", "ok", RrCtx(email, found, "none"))
             /\ UNCHANGED proc
  /\ UNCHANGED <<clockVars, dbVars, sessions, histVars>>

\* issuePasswordResetToken, then the awaited sendPasswordResetEmail, which
\* is not inside a try: when the dispatch throws, the handler throws
ResetRequestIssue(p) ==
  /\ UNCHANGED budget
  /\ proc[p].op = "reset-request" /\ proc[p].pc = "issue"
  /\ nextTok <= MaxTokens
  /\ IssuePr(proc[p].user.email)
  /\ \E mail \in MailOutcomes :
       last' = Resp("reset-request",
                    IF mail = "sent" THEN Audited("ok") ELSE "exception",
                    RrCtx(proc[p].email, Some(proc[p].user), mail))
  /\ proc' = [proc EXCEPT ![p] = Idle]
  /\ UNCHANGED <<clockVars, userVars, evTokens, invTokens, sessions, effects>>

\* ------------------------------------------------------------------------
\* credential sign-in: authorize, then the jwt callback
\* ------------------------------------------------------------------------
NoAccountIgnoresDeleted(found) ==
  found = Null \/ found[1].passwordHash = Null

\* `!user || !user.passwordHash || user.deletedAt`
NoAccount(found) ==
  found = Null \/ found[1].passwordHash = Null \/ found[1].deletedAt # Null

\* the outcome of authorize for the row found (Null when none) and a secret
AuthorizeSkipsVerified(email, password, found) ==
  IF email = "" \/ password = "" THEN "CredentialsSignin"
  ELSE IF NoAccount(found) THEN "CredentialsSignin"
  ELSE IF ~Compare(password, found[1].passwordHash[1])
     THEN "CredentialsSignin"
  ELSE "ok"

Authorize(email, password, found) ==
  IF email = "" \/ password = "" THEN "CredentialsSignin"
  ELSE IF NoAccount(found) THEN "CredentialsSignin"
  ELSE IF found[1].emailVerified = Null THEN "EMAIL_NOT_VERIFIED"
  ELSE IF ~Compare(password, found[1].passwordHash[1])
     THEN "CredentialsSignin"
  ELSE "ok"

SignInAuthorize(p, email, password) ==
  /\ Begin
  /\ proc[p] = Idle
  /\ LET rows == UserByEmail(Normalize(email))
         found == IF rows = {} THEN Null ELSE Some(CHOOSE u \in rows : TRUE)
         outcome == Authorize(Normalize(email), password, found)
     IN /\ last' = Resp("authorize", outcome,
                        [email |-> Normalize(email), password |-> password,
                         found |-> found])
        /\ IF outcome = "ok"
           THEN proc' = [proc EXCEPT ![p] =
                  [op |-> "signin", pc |-> "jwt",
                   user |-> [id |-> found[1].id, role |-> found[1].role]]]
           ELSE UNCHANGED proc
  /\ UNCHANGED <<clockVars, dbVars, sessions, histVars>>

\* sign-in through GoogleProvider and PrismaAdapter: an unknown email gets a
\* new account without a credential hash; an account created this way signs
\* in again; any other account with the email is refused as not linked
OAuthSignIn(p, email) ==
  /\ Begin
  /\ proc[p] = Idle
  /\ LET rows == UserByEmail(email)
     IN IF rows = {}
        THEN /\ nextId <= MaxUsers
             /\ users' = users \cup
                  {[id |-> nextId, email |-> email, passwordHash |-> Null,
                    role |-> "VISITOR", emailVerified |-> Null,
                    deletedAt |-> Null]}
             /\ nextId' = nextId + 1
             /\ origin' = Append(origin, "oauth")
             /\ proc' = [proc EXCEPT ![p] =
                  [op |-> "signin", pc |-> "jwt",
                   user |-> [id |-> nextId, role |-> "VISITOR"]]]
             /\ last' = NoResp
        ELSE LET u == CHOOSE x \in rows : TRUE
             IN /\ UNCHANGED userVars
                /\ IF origin[u.id] = "oauth"
                   THEN /\ proc' = [proc EXCEPT ![p] =
                             [op |-> "signin", pc |-> "jwt",
                              user |-> [id |-> u.id, role |-> u.role]]]
                        /\ last' = NoResp
                   ELSE /\ UNCHANGED proc
                        /\ last' = Resp("oauth", "OAuthAccountNotLinked",
                                        [email |-> email])
  /\ UNCHANGED <<clockVars, tokVars, sessions, histVars>>

JwtFromSignInResult(user) ==
  [id |-> user.id, role |-> user.role, deletedAt |-> Null]

\* callbacks.jwt on initial sign-in: the claims are read from the database
Jwt(user) ==
  LET db == UserById(user.id)
  IN IF db # {}
     THEN LET d == CHOOSE x \in db : TRUE
          IN [id |-> d.id, role |-> d.role, deletedAt |-> d.deletedAt]
     ELSE [id |-> user.id, role |-> "VISITOR", deletedAt |-> Null]

\* callbacks.signIn awaits logActivity and returns true; then callbacks.jwt
\* mints the claims
SignInJwt(p) ==
  /\ UNCHANGED budget
  /\ proc[p].op = "signin" /\ proc[p].pc = "jwt"
  /\ IF Audited("ok") = "ok"
     THEN /\ sessions' = sessions \cup {Jwt(proc[p].user)}
          /\ last' = NoResp
     ELSE /\ UNCHANGED sessions
          /\ last' = Resp("signin", Audited("ok"), [user |-> proc[p].user])
  /\ proc' = [proc EXCEPT ![p] = Idle]
  /\ UNCHANGED <<clockVars, dbVars, histVars>>

\* events.signOut awaits logActivity; with the jwt strategy signing out
\* clears the cookie and leaves the store untouched
SignOut(p, session) ==
  /\ Begin
  /\ proc[p] = Idle
  /\ session # Null
  /\ last' = Resp("signout", Audited("ok"), [session |-> session])
  /\ UNCHANGED <<clockVars, dbVars, sessions, proc, histVars>>

\* ------------------------------------------------------------------------
\* session-authenticated handlers
\* ------------------------------------------------------------------------
SessionInputs == {Some(s) : s \in sessions} \cup {Null}

\* POST /api/self-delete
SelfDelete(p, session) ==
  /\ Begin
  /\ proc[p] = Idle
  /\ LET ctx == [session |-> session]
     IN IF session = Null
        THEN /\ last' = Resp("self-delete", "Unauthorized", ctx)
             /\ UNCHANGED users
        ELSE LET found == UserById(session[1].id)
             IN IF found = {}
                THEN /\ last' = Resp("self-delete", "exception", ctx)
                     /\ UNCHANGED users
                ELSE LET u == CHOOSE x \in found : TRUE
                     IN /\ users' = (users \ {u}) \cup
                               {[u EXCEPT !.deletedAt = Some(now)]}
                        /\ last' = Resp("self-delete", Audited("ok"), ctx)
  /\ UNCHANGED <<clockVars, nextId, origin, tokVars, sessions, proc, histVars>>

\* ORDER and hasRole of lib/rbac
\* ORDER[r] is undefined for a value that is not one of its keys
Undefined == -1

RankUnknownIsLowest(r) ==
  CASE r = "VISITOR" -> 0 [] r = "OWNER" -> 1
    [] r = "EDITOR" -> 2 [] r = "ADMIN" -> 3 [] OTHER -> 0

Rank(r) ==
  CASE r = "VISITOR" -> 0 [] r = "OWNER" -> 1
    [] r = "EDITOR" -> 2 [] r = "ADMIN" -> 3 [] OTHER -> Undefined

HasRoleStrict(current, required) ==
  /\ Rank(current) # Undefined /\ Rank(required) # Undefined
  /\ Rank(current) > Rank(required)

\* `ORDER[current] >= ORDER[required]`; the comparison is false when either
\* side is undefined
HasRole(current, required) ==
  /\ Rank(current) # Undefined /\ Rank(required) # Undefined
  /\ Rank(current) >= Rank(required)

\* the values hasRole is called with: the four roles, and values that are
\* not a role (a missing role, a malformed one)
RoleInputs == Roles \cup {"", "BOGUS"}

InitRbac ==
  /\ InitDb
  /\ budget = 0
  /\ gate = NoGate
  /\ rbac \in {[NoRbac EXCEPT !.a = x, !.b = y, !.c = z] :
                 x \in RoleInputs, y \in RoleInputs, z \in RoleInputs}
  /\ auditFails = FALSE

\* hasRole is called on each pair of the three values
RbacCall ==
  /\ ~rbac.called
  /\ rbac' = [rbac EXCEPT !.called = TRUE,
                          !.ab = HasRole(rbac.a, rbac.b),
                          !.ba = HasRole(rbac.b, rbac.a),
                          !.bc = HasRole(rbac.b, rbac.c),
                          !.ac = HasRole(rbac.a, rbac.c)]
  /\ UNCHANGED <<now, dbVars, sessions, proc, last, histVars, budget, gate,
                 auditFails, storeVars>>

SpecRbac == InitRbac /\ [][RbacCall]_vars

AdminCheckReadsAccount(session) ==
  IF session = Null THEN "Unauthorized"
  ELSE IF \A u \in UserById(session[1].id) :
            u.deletedAt # Null \/ ~HasRole(u.role, "ADMIN")
     THEN "Forbidden"
  ELSE "pass"

\* the session and role checks that open every admin user handler
AdminCheck(session) ==
  IF session = Null THEN "Unauthorized"
  ELSE IF ~HasRole(session[1].role, "ADMIN") THEN "Forbidden"
  ELSE "pass"

\* POST /api/admin/users/[id]/delete
HardDelete(p, session, id) ==
  /\ Begin
  /\ proc[p] = Idle
  /\ LET ctx == [session |-> session, id |-> id]
     IN IF AdminCheck(session) # "pass"
        THEN /\ last' = Resp("hard-delete", AdminCheck(session), ctx)
             /\ UNCHANGED users
        ELSE IF UserById(id) = {}
        THEN /\ last' = Resp("hard-delete", "exception", ctx)
             /\ UNCHANGED users
        ELSE /\ users' = users \ UserById(id)
             /\ last' = Resp("hard-delete", Audited("ok"), ctx)
  /\ UNCHANGED <<clockVars, nextId, origin, tokVars, sessions, proc, histVars>>

\* POST /api/admin/users: issue an invite and mail it
AdminInvite(p, session, email, role) ==
  /\ Begin
  /\ proc[p] = Idle
  /\ LET ctx == [session |-> session, email |-> email, role |-> role]
     IN IF AdminCheck(session) # "pass"
        THEN /\ last' = Resp("invite", AdminCheck(session), ctx)
             /\ UNCHANGED <<tokVars, issued>>
        ELSE IF email = ""
        THEN /\ last' = Resp("invite", "Missing email", ctx)
             /\ UNCHANGED <<tokVars, issued>>
        ELSE /\ nextTok <= MaxTokens
             /\ IssueInvite(Normalize(email),
                            IF role = "" THEN "VISITOR" ELSE role)
             /\ UNCHANGED <<evTokens, prTokens>>
             /\ \E mail \in MailOutcomes :
                  last' = Resp("invite",
                               IF mail = "sent" THEN Audited("ok")
                               ELSE "exception",
                               ctx)
  /\ UNCHANGED <<clockVars, userVars, sessions, proc, effects>>

\* POST /api/admin/users/create: the session and role checks, the required
\* fields and the lookup of an existing account
AdminCreateStart(p, session, email, password, role) ==
  /\ Begin
  /\ proc[p] = Idle
  /\ LET normalized == Normalize(email)
         ctx == [session |-> session, email |-> normalized]
     IN IF AdminCheck(session) # "pass"
        THEN /\ last' = Resp("admin-create", AdminCheck(session), ctx)
             /\ UNCHANGED proc
        ELSE IF email = "" \/ password = ""
        THEN /\ last' = Resp("admin-create",
                             "Email and password are required", ctx)
             /\ UNCHANGED proc
        ELSE IF UserByEmail(normalized) # {}
        THEN /\ last' = Resp("admin-create", "Email already in use", ctx)
             /\ UNCHANGED proc
        ELSE /\ proc' = [proc EXCEPT ![p] =
                  [op |-> "admin-create", pc |-> "create",
                   email |-> normalized, password |-> password,
                   role |-> IF role = "" THEN "VISITOR" ELSE role,
                   session |-> session]]
             /\ last' = NoResp
  /\ UNCHANGED <<clockVars, dbVars, sessions, histVars>>

\* bcrypt.hash and prisma.user.create inside the handler's try: a throwing
\* create is answered "Failed to create user"
AdminCreateCreate(p) ==
  /\ UNCHANGED budget
  /\ proc[p].op = "admin-create" /\ proc[p].pc = "create"
  /\ LET ctx == [session |-> proc[p].session, email |-> proc[p].email]
     IN IF CreateThrows(proc[p].email)
        THEN /\ last' = Resp("admin-create", "Failed to create user", ctx)
             /\ UNCHANGED userVars
        ELSE /\ nextId <= MaxUsers
             /\ users' = users \cup
                  {[id |-> nextId, email |-> proc[p].email,
                    passwordHash |-> Some(Hash(proc[p].password)),
                    role |-> proc[p].role, emailVerified |-> Some(now),
                    deletedAt |-> Null]}
             /\ nextId' = nextId + 1
             /\ origin' = Append(origin, "admin-create")
             /\ last' = Resp("admin-create", Audited("ok"), ctx)
  /\ proc' = [proc EXCEPT ![p] = Idle]
  /\ UNCHANGED <<clockVars, tokVars, sessions, histVars>>

ListUsersUnchecked(p, session) ==
  /\ Begin
  /\ proc[p] = Idle
  /\ last' = Resp("list-users",
                  IF session = Null THEN "Unauthorized" ELSE "ok",
                  [session |-> session,
                   users |-> IF session = Null THEN {} ELSE users])
  /\ UNCHANGED <<clockVars, dbVars, sessions, proc, histVars>>

\* GET /api/admin/users: the list of the accounts
ListUsers(p, session) ==
  /\ Begin
  /\ proc[p] = Idle
  /\ last' = Resp("list-users",
                  IF AdminCheck(session) # "pass" THEN AdminCheck(session)
                  ELSE "ok",
                  [session |-> session,
                   users |-> IF AdminCheck(session) # "pass" THEN {}
                             ELSE users])
  /\ UNCHANGED <<clockVars, dbVars, sessions, proc, histVars>>

ValidStatuses == {"PENDING", "VERIFIED", "ACTIVE", "SUSPENDED", "DELETED"}

\* PATCH /api/admin/users/[id]/status: prisma.user.update and logActivity are
\* inside the handler's try, a throw is answered "Failed to update status"
SetStatus(p, session, id, st) ==
  /\ Begin
  /\ proc[p] = Idle
  /\ LET ctx == [session |-> session, id |-> id, status |-> st]
     IN IF AdminCheck(session) # "pass"
        THEN /\ last' = Resp("set-status", AdminCheck(session), ctx)
             /\ UNCHANGED status
        ELSE IF st \notin ValidStatuses
        THEN /\ last' = Resp("set-status", "Invalid status", ctx)
             /\ UNCHANGED status
        ELSE IF UserById(id) = {}
        THEN /\ last' = Resp("set-status", "Failed to update status", ctx)
             /\ UNCHANGED status
        ELSE /\ status' = {r \in status : r.id # id} \cup
                            {[id |-> id, status |-> st]}
             /\ last' = Resp("set-status",
                             IF LogActivity(auditFails) = "thrown"
                             THEN "Failed to update status" ELSE "ok",
                             ctx)
  /\ UNCHANGED <<envVars, index, acks, dbVars, sessions, proc, histVars>>

\* ------------------------------------------------------------------------
\* /api/requests: the file-backed request store
\* ------------------------------------------------------------------------
Subjects == {"s1", "s2"}
Actions == {"APPROVED", "REJECTED", "PENDING"}

\* the orders of the positions 1..n
Orders(n) == {f \in [1..n -> 1..n] : \A i, j \in 1..n : i # j => f[i] # f[j]}

\* readAll: the parsed index sorted newest first; the comparator never
\* answers 0, so items with one requestTime come out in either order
ReadAll ==
  {s \in {[i \in 1..Len(index) |-> index[f[i]]] : f \in Orders(Len(index))} :
     \A i \in 1..(Len(s) - 1) : s[i].requestTime >= s[i + 1].requestTime}

\* `all.findIndex((r) => r.id === String(id))`, 0 when there is none
FindIndex(all, id) ==
  IF \A i \in 1..Len(all) : all[i].id # id THEN 0
  ELSE CHOOSE i \in 1..Len(all) :
         all[i].id = id /\ \A j \in 1..(i - 1) : all[j].id # id

\* `role === "ADMIN" || role === "EDITOR"`
MayPatch(session) ==
  session # Null /\ session[1].role \in {"ADMIN", "EDITOR"}

\* GET /api/requests[?all=1]
ReqGet(p, session, wantAll) ==
  /\ Begin
  /\ proc[p] = Idle
  /\ \E all \in ReadAll :
       last' = Resp("req-get", "ok",
                    [session |-> session,
                     requests |->
                       IF wantAll /\ MayPatch(session) THEN all
                       ELSE SelectSeq(all,
                              LAMBDA r : session # Null
                                         /\ r.userId = Some(session[1].id))])
  /\ UNCHANGED <<clockVars, dbVars, sessions, proc, histVars>>

\* POST /api/requests: the subject check and the new item, whose id and
\* requestTime are the time of the call
ReqPostStart(p, session, subject) ==
  /\ Begin
  /\ proc[p] = Idle
  /\ IF subject = ""
     THEN /\ last' = Resp("req-post", "Subject is required",
                          [session |-> session])
          /\ UNCHANGED proc
     ELSE /\ proc' = [proc EXCEPT ![p] =
               [op |-> "req-post", pc |-> "read", all |-> <<>>,
                item |-> [id |-> now,
                          userId |-> IF session = Null THEN Null
                                     ELSE Some(session[1].id),
                          subject |-> subject, requestTime |-> now,
                          action |-> "PENDING", actionTime |-> Null]]]
          /\ last' = NoResp
  /\ UNCHANGED <<clockVars, dbVars, sessions, histVars>>

\* `const all = await readAll()`
ReqPostRead(p) ==
  /\ UNCHANGED budget
  /\ proc[p].op = "req-post" /\ proc[p].pc = "read"
  /\ \E all \in ReadAll :
       proc' = [proc EXCEPT ![p].all = all, ![p].pc = "write"]
  /\ last' = NoResp
  /\ UNCHANGED <<clockVars, dbVars, sessions, histVars>>

\* `all.push(item); await writeAll(all)` and the ok answer
ReqPostWrite(p) ==
  /\ UNCHANGED budget
  /\ proc[p].op = "req-post" /\ proc[p].pc = "write"
  /\ index' = Append(proc[p].all, proc[p].item)
  /\ acks' = Append(acks, [kind |-> "post", item |-> proc[p].item])
  /\ last' = Resp("req-post", "ok", [item |-> proc[p].item])
  /\ proc' = [proc EXCEPT ![p] = Idle]
  /\ UNCHANGED <<envVars, status, dbVars, sessions, histVars>>

\* PATCH /api/requests: the role check and the payload check
ReqPatchStart(p, session, id, action) ==
  /\ Begin
  /\ proc[p] = Idle
  /\ IF ~MayPatch(session)
     THEN /\ last' = Resp("req-patch", "Forbidden", [session |-> session])
          /\ UNCHANGED proc
     ELSE IF action \notin Actions
     THEN /\ last' = Resp("req-patch", "Invalid payload",
                          [session |-> session])
          /\ UNCHANGED proc
     ELSE /\ proc' = [proc EXCEPT ![p] =
               [op |-> "req-patch", pc |-> "read", all |-> <<>>, idx |-> 0,
                id |-> id, action |-> action]]
          /\ last' = NoResp
  /\ UNCHANGED <<clockVars, dbVars, sessions, histVars>>

\* readAll, findIndex and the change of the item in the list read
ReqPatchRead(p) ==
  /\ UNCHANGED budget
  /\ proc[p].op = "req-patch" /\ proc[p].pc = "read"
  /\ \E all \in ReadAll :
       LET idx == FindIndex(all, proc[p].id)
       IN IF idx = 0
          THEN /\ last' = Resp("req-patch", "Not found", [id |-> proc[p].id])
               /\ proc' = [proc EXCEPT ![p] = Idle]
          ELSE /\ proc' = [proc EXCEPT
                    ![p].pc = "write", ![p].idx = idx,
                    ![p].all = [all EXCEPT
                      ![idx].action = proc[p].action,
                      ![idx].actionTime = IF proc[p].action = "PENDING"
                                          THEN Null ELSE Some(now)]]
               /\ last' = NoResp
  /\ UNCHANGED <<clockVars, dbVars, sessions, histVars>>

\* `await writeAll(all)` and the ok answer
ReqPatchWrite(p) ==
  /\ UNCHANGED budget
  /\ proc[p].op = "req-patch" /\ proc[p].pc = "write"
  /\ index' = proc[p].all
  /\ acks' = Append(acks, [kind |-> "patch",
                           item |-> proc[p].all[proc[p].idx]])
  /\ last' = Resp("req-patch", "ok", [item |-> proc[p].all[proc[p].idx]])
  /\ proc' = [proc EXCEPT ![p] = Idle]
  /\ UNCHANGED <<envVars, status, dbVars, sessions, histVars>>

\* ------------------------------------------------------------------------
\* the request gate (middleware.ts); a path is the sequence of its characters
\* ------------------------------------------------------------------------
P_Root == <<"/">>
P_Login == <<"/", "l", "o", "g", "i", "n">>
P_Register == <<"/", "r", "e", "g", "i", "s", "t", "e", "r">>
P_Verify == <<"/", "v", "e", "r", "i", "f", "y">>
P_Reset == <<"/", "r", "e", "s", "e", "t">>
P_ResetRequest == <<"/", "r", "e", "s", "e", "t", "-", "r", "e", "q", "u", "e", "s", "t">>
P_ApiAuthRegister == <<"/", "a", "p", "i", "/", "a", "u", "t", "h", "/", "r", "e", "g", "i", "s", "t", "e", "r">>
P_ApiAuthReset == <<"/", "a", "p", "i", "/", "a", "u", "t", "h", "/", "r", "e", "s", "e", "t">>
P_ApiAuthResetRequest == <<"/", "a", "p", "i", "/", "a", "u", "t", "h", "/", "r", "e", "s", "e", "t", "-", "r", "e", "q", "u", "e", "s", "t">>
P_ApiAuthVerify == <<"/", "a", "p", "i", "/", "a", "u", "t", "h", "/", "v", "e", "r", "i", "f", "y">>
P_ApiInviteInspect == <<"/", "a", "p", "i", "/", "i", "n", "v", "i", "t", "e", "/", "i", "n", "s", "p", "e", "c", "t">>
P_Dashboard == <<"/", "d", "a", "s", "h", "b", "o", "a", "r", "d">>
P_Owner == <<"/", "o", "w", "n", "e", "r">>
P_ApiListings == <<"/", "a", "p", "i", "/", "l", "i", "s", "t", "i", "n", "g", "s">>
P_Admin == <<"/", "a", "d", "m", "i", "n">>
P_ApiAdmin == <<"/", "a", "p", "i", "/", "a", "d", "m", "i", "n">>
P_NextStatic == <<"_", "n", "e", "x", "t", "/", "s", "t", "a", "t", "i", "c">>
P_NextImage == <<"_", "n", "e", "x", "t", "/", "i", "m", "a", "g", "e">>
P_Favicon == <<"f", "a", "v", "i", "c", "o", "n", ".", "i", "c", "o">>
P_Images == <<"i", "m", "a", "g", "e", "s", "/">>
P_Public == <<"p", "u", "b", "l", "i", "c", "/">>
P_LoginHelp == <<"/", "l", "o", "g", "i", "n", "/", "h", "e", "l", "p">>
P_Loginx == <<"/", "l", "o", "g", "i", "n", "x">>
P_VerifyToken == <<"/", "v", "e", "r", "i", "f", "y", "/", "t">>
P_AdminUsers == <<"/", "a", "d", "m", "i", "n", "/", "u", "s", "e", "r", "s">>
P_ApiAdminUsers == <<"/", "a", "p", "i", "/", "a", "d", "m", "i", "n", "/", "u", "s", "e", "r", "s">>
P_Administrator == <<"/", "a", "d", "m", "i", "n", "i", "s", "t", "r", "a", "t", "o", "r">>
P_DashboardMe == <<"/", "d", "a", "s", "h", "b", "o", "a", "r", "d", "/", "m", "e">>
P_OwnerNew == <<"/", "o", "w", "n", "e", "r", "/", "n", "e", "w">>
P_ApiListingsOne == <<"/", "a", "p", "i", "/", "l", "i", "s", "t", "i", "n", "g", "s", "/", "1">>
P_Profile == <<"/", "p", "r", "o", "f", "i", "l", "e">>
P_ApiSelfDelete == <<"/", "a", "p", "i", "/", "s", "e", "l", "f", "-", "d", "e", "l", "e", "t", "e">>
P_ApiRequests == <<"/", "a", "p", "i", "/", "r", "e", "q", "u", "e", "s", "t", "s">>
P_ImagesLogo == <<"/", "i", "m", "a", "g", "e", "s", "/", "l", "o", "g", "o", ".", "p", "n", "g">>
P_ImagesDir == <<"/", "i", "m", "a", "g", "e", "s", "x">>
P_NextStaticJs == <<"/", "_", "n", "e", "x", "t", "/", "s", "t", "a", "t", "i", "c", "/", "a", ".", "j", "s">>
P_ApiAuth == <<"/", "a", "p", "i", "/", "a", "u", "t", "h">>
P_Next == <<"/", "_", "n", "e", "x", "t">>
P_FaviconIco == <<"/", "f", "a", "v", "i", "c", "o", "n", ".", "i", "c", "o">>
P_ApiAuthSignin == <<"/", "a", "p", "i", "/", "a", "u", "t", "h", "/", "s", "i", "g", "n", "i", "n">>
P_ApiAuthRegisterX == <<"/", "a", "p", "i", "/", "a", "u", "t", "h", "/", "r", "e", "g", "i", "s", "t", "e", "r", "/", "x">>

\* String.prototype.startsWith
StartsWith(p, x) == Len(p) >= Len(x) /\ SubSeq(p, 1, Len(x)) = x

\* config.matcher: the gate runs on every path except those whose first
\* segment starts with one of the excluded alternatives
MatcherExcluded == {P_NextStatic, P_NextImage, P_Favicon, P_Images, P_Public}

Matched(p) ==
  /\ StartsWith(p, P_Root)
  /\ ~\E x \in MatcherExcluded : StartsWith(p, P_Root \o x)

\* callbacks.authorized
PublicPaths ==
  {P_Root, P_Login, P_Register, P_Verify, P_Reset, P_ResetRequest,
   P_ApiAuthRegister, P_ApiAuthReset, P_ApiAuthResetRequest, P_ApiAuthVerify,
   P_ApiInviteInspect}

AuthorizedEveryone(token, p) == TRUE

Authorized(token, p) ==
  IF \E x \in PublicPaths : p = x \/ StartsWith(p, x \o P_Root) THEN TRUE
  ELSE IF StartsWith(p, P_Dashboard) \/ StartsWith(p, P_Owner)
          \/ StartsWith(p, P_ApiListings)
     THEN token # Null
  ELSE IF StartsWith(p, P_Admin) \/ StartsWith(p, P_ApiAdmin)
     THEN token # Null
  ELSE TRUE

AccessDenied == "redirect /login?error=AccessDenied"

\* the lockout test of the middleware function
LockedOut(token, pathname) ==
  /\ token # Null
  /\ token[1].deletedAt # Null
  /\ ~StartsWith(pathname, P_Login)
  /\ ~StartsWith(pathname, P_Register)
  /\ ~StartsWith(pathname, P_Reset)
  /\ ~StartsWith(pathname, P_Verify)
  /\ pathname # P_Root

AdminRoleAdminOnly(token) == token # Null /\ token[1].role = "ADMIN"

\* `role !== "ADMIN" && role !== "EDITOR"` negated; role is undefined
\* without a token
AdminRole(token) == token # Null /\ token[1].role \in {"ADMIN", "EDITOR"}

\* the middleware function
MiddlewareSkipsLockout(token, pathname) ==
  IF (StartsWith(pathname, P_Admin) \/ StartsWith(pathname, P_ApiAdmin))
     /\ ~AdminRole(token)
  THEN AccessDenied
  ELSE "next"

Middleware(token, pathname) ==
  IF LockedOut(token, pathname) THEN AccessDenied
  ELSE IF (StartsWith(pathname, P_Admin) \/ StartsWith(pathname, P_ApiAdmin))
          /\ ~AdminRole(token)
  THEN AccessDenied
  ELSE "next"

\* withAuth of next-auth returns before any callback for the paths of its
\* own endpoints (the path of NEXTAUTH_URL, /api/auth by default) and for
\* /_next and /favicon.ico
HandledByLibrary(p) ==
  \/ StartsWith(p, P_ApiAuth)
  \/ StartsWith(p, P_Next) \/ StartsWith(p, P_FaviconIco)

WithAuthRequiresToken(token, p) ==
  IF ~Matched(p) \/ HandledByLibrary(p) THEN "next"
  ELSE IF token = Null THEN "redirect sign-in"
  ELSE Middleware(token, p)

\* withAuth: outside the matcher the request passes untouched; a request
\* that callbacks.authorized refuses is sent to the sign-in page; otherwise
\* the middleware function decides
WithAuth(token, p) ==
  IF ~Matched(p) \/ HandledByLibrary(p) THEN "next"
  ELSE IF ~Authorized(token, p) THEN "redirect sign-in"
  ELSE Middleware(token, p)

\* the paths and claims requests arrive with
GatePaths ==
  {P_Root, P_Login, P_LoginHelp, P_Loginx, P_Register, P_Verify,
   P_VerifyToken, P_Reset, P_ResetRequest, P_ApiAuthRegister,
   P_ApiAuthRegisterX, P_ApiAuthVerify, P_ApiAuthSignin, P_ApiInviteInspect, P_Dashboard,
   P_DashboardMe, P_Owner, P_OwnerNew, P_ApiListings, P_ApiListingsOne,
   P_Admin, P_AdminUsers, P_ApiAdmin, P_ApiAdminUsers, P_Administrator,
   P_Profile, P_ApiSelfDelete, P_ApiRequests, P_ImagesLogo, P_ImagesDir,
   P_NextStaticJs}

GateClaims ==
  {Null} \cup
  {Some([id |-> 2, role |-> r, deletedAt |-> d]) :
     r \in Roles \cup {"BOGUS", ""}, d \in {Null, Some(0)}}

InitGate ==
  /\ InitDb
  /\ budget = 0
  /\ gate \in {[path |-> p, claims |-> c, decision |-> "none"] :
                 p \in GatePaths, c \in GateClaims}
  /\ rbac = NoRbac
  /\ auditFails = FALSE

\* a request passes the gate
GateCheck ==
  /\ gate.decision = "none"
  /\ gate' = [gate EXCEPT !.decision = WithAuth(gate.claims, gate.path)]
  /\ UNCHANGED <<now, dbVars, sessions, proc, last, histVars, budget, rbac,
                 auditFails, storeVars>>

SpecGate == InitGate /\ [][GateCheck]_vars

\* ------------------------------------------------------------------------
\* specifications
\* ------------------------------------------------------------------------
\* every handler, with every input
Next ==
  \/ \E d \in TickSteps : Tick(d)
  \/ \E p \in Procs :
       \/ \E e \in UserEmails \cup {OtherEmail, ""}, i \in TokenInputs,
             a \in {"", "owner"} : RegisterStart(p, e, RegisterSecret, i, a)
       \/ RegisterInvite(p)
       \/ RegisterCreate(p)
       \/ RegisterMark(p)
       \/ RegisterIssue(p)
       \/ \E t \in TokenInputs : VerifyStart(p, t)
       \/ VerifyDelete(p)
       \/ VerifyUpdate(p)
       \/ \E t \in TokenInputs : ResetStart(p, t, ResetSecret)
       \/ ResetDelete(p)
       \/ ResetFind(p)
       \/ ResetUpdate(p)
       \/ \E e \in UserEmails \cup {""} : ResetRequestStart(p, e)
       \/ ResetRequestIssue(p)
       \/ \E e \in UserEmails \cup {AdminEmail},
             s \in {RegisterSecret, ResetSecret, AdminSecret} :
            SignInAuthorize(p, e, s)
       \/ OAuthSignIn(p, "a@x.com")
       \/ SignInJwt(p)
       \/ \E s \in SessionInputs : SelfDelete(p, s)
       \/ \E s \in SessionInputs, i \in 1..(nextId - 1) : HardDelete(p, s, i)
       \/ \E s \in SessionInputs, r \in {"", "EDITOR"} :
            AdminInvite(p, s, " A@X.com", r)

Spec == Init /\ [][Next]_vars

\* the admin signs in, issues invites and removes accounts while
\* registrations run
NextAdmin ==
  \/ \E d \in {InvTTL, InvTTL + 1} : Tick(d)
  \/ \E p \in Procs :
       \/ \E e \in UserEmails \cup {OtherEmail}, i \in TokenInputs \ {Null} :
            RegisterStart(p, e, RegisterSecret, i, "")
       \/ RegisterInvite(p)
       \/ RegisterCreate(p)
       \/ RegisterMark(p)
       \/ RegisterIssue(p)
       \/ SignInAuthorize(p, AdminEmail, AdminSecret)
       \/ SignInJwt(p)
       \/ \E s \in SessionInputs, i \in 1..(nextId - 1) : HardDelete(p, s, i)
       \/ \E s \in SessionInputs, r \in {"", "EDITOR"} :
            AdminInvite(p, s, " A@X.com", r)

SpecAdmin == InitAdmin /\ [][NextAdmin]_vars

\* accounts are created by self-registration and by the admin while
\* accounts are soft-deleted
NextCreate ==
  \E p \in Procs :
    \/ \E e \in UserEmails \cup {AdminEmail}, a \in {"", "owner"} :
         RegisterStart(p, e, RegisterSecret, Null, a)
    \/ RegisterCreate(p)
    \/ RegisterIssue(p)
    \/ SignInAuthorize(p, AdminEmail, AdminSecret)
    \/ SignInJwt(p)
    \/ \E s \in SessionInputs : SelfDelete(p, s)
    \/ \E s \in SessionInputs, e \in {"a@x.com", " A@X.com", AdminEmail, ""},
          r \in {"", "EDITOR"} :
         AdminCreateStart(p, s, e, RegisterSecret, r)
    \/ AdminCreateCreate(p)

SpecCreate == InitCreate /\ [][NextCreate]_vars

\* every operation that writes an audit event, while the audit writes
\* succeed or fail
NextAudit ==
  \E p \in Procs :
    \/ RegisterStart(p, "a@x.com", RegisterSecret, Null, "")
    \/ RegisterCreate(p)
    \/ RegisterIssue(p)
    \/ \E t \in TokenInputs \ {Null} : VerifyStart(p, t)
    \/ VerifyDelete(p)
    \/ VerifyUpdate(p)
    \/ \E e \in {"a@x.com", AdminEmail} : ResetRequestStart(p, e)
    \/ ResetRequestIssue(p)
    \/ \E t \in TokenInputs \ {Null} : ResetStart(p, t, ResetSecret)
    \/ ResetDelete(p)
    \/ ResetFind(p)
    \/ ResetUpdate(p)
    \/ SignInAuthorize(p, AdminEmail, AdminSecret)
    \/ SignInJwt(p)
    \/ \E s \in SessionInputs : SignOut(p, s)
    \/ \E s \in SessionInputs : SelfDelete(p, s)
    \/ \E s \in SessionInputs, i \in 1..(nextId - 1) : HardDelete(p, s, i)
    \/ \E s \in SessionInputs : AdminInvite(p, s, " A@X.com", "EDITOR")
    \/ \E s \in SessionInputs :
         AdminCreateStart(p, s, OtherEmail, RegisterSecret, "")
    \/ AdminCreateCreate(p)

SpecAudit == InitAudit /\ [][NextAudit]_vars

\* verification and reset tokens are issued and redeemed while the clock runs
\* and accounts are removed and registered again
NextTokens ==
  \/ Tick(PrTTL)
  \/ \E p \in Procs :
       \/ RegisterStart(p, "a@x.com", RegisterSecret, Null, "")
       \/ RegisterCreate(p)
       \/ RegisterIssue(p)
       \/ \E t \in TokenInputs \ {Null} : VerifyStart(p, t)
       \/ VerifyDelete(p)
       \/ VerifyUpdate(p)
       \/ \E e \in {"a@x.com", AdminEmail} : ResetRequestStart(p, e)
       \/ ResetRequestIssue(p)
       \/ \E t \in TokenInputs \ {Null} : ResetStart(p, t, ResetSecret)
       \/ ResetDelete(p)
       \/ ResetFind(p)
       \/ ResetUpdate(p)
       \/ SignInAuthorize(p, AdminEmail, AdminSecret)
       \/ SignInJwt(p)
       \/ \E s \in SessionInputs : SelfDelete(p, s)
       \/ \E s \in SessionInputs, i \in 1..(nextId - 1) : HardDelete(p, s, i)

SpecTokens == InitTokens /\ [][NextTokens]_vars

\* the admin issues invites; registrations arrive with and without an
\* invite, asking for the owner role or not, while the clock runs
NextInvites ==
  \/ \E d \in {InvTTL, InvTTL + 1} : Tick(d)
  \/ \E p \in Procs :
       \/ \E em \in {"a@x.com", OtherEmail}, i \in TokenInputs,
             a \in {"", "owner"} :
            RegisterStart(p, em, RegisterSecret, i, a)
       \/ RegisterInvite(p)
       \/ RegisterCreate(p)
       \/ RegisterMark(p)
       \/ RegisterIssue(p)
       \/ SignInAuthorize(p, AdminEmail, AdminSecret)
       \/ SignInJwt(p)
       \/ \E s \in SessionInputs, r \in {"", "EDITOR", "ADMIN"} :
            AdminInvite(p, s, " A@X.com", r)

SpecInvites == InitInvites /\ [][NextInvites]_vars

\* the admin creates accounts with and without the editor role; the admin
\* and the created accounts sign in and call the admin user handlers
NextAccess ==
  \E p \in Procs :
    \/ SignInAuthorize(p, AdminEmail, AdminSecret)
    \/ SignInAuthorize(p, OtherEmail, RegisterSecret)
    \/ SignInJwt(p)
    \/ \E s \in SessionInputs, r \in {"", "EDITOR"} :
         AdminCreateStart(p, s, OtherEmail, RegisterSecret, r)
    \/ AdminCreateCreate(p)
    \/ \E s \in SessionInputs, i \in 1..(nextId - 1) : HardDelete(p, s, i)
    \/ \E s \in SessionInputs : AdminInvite(p, s, " A@X.com", "EDITOR")
    \/ \E s \in SessionInputs : ListUsers(p, s)
    \/ \E s \in SessionInputs, i \in 1..(nextId - 1),
          st \in {"SUSPENDED", "BOGUS"} : SetStatus(p, s, i, st)

SpecAccess == InitAccess /\ [][NextAccess]_vars

\* requests are posted, listed and patched by the admin and by callers
\* without a session while the clock runs
NextRequests ==
  \/ Tick(1)
  \/ \E p \in Procs :
       \/ SignInAuthorize(p, AdminEmail, AdminSecret)
       \/ SignInJwt(p)
       \/ \E s \in SessionInputs, w \in BOOLEAN : ReqGet(p, s, w)
       \/ \E s \in SessionInputs, subject \in Subjects \cup {""} :
            ReqPostStart(p, s, subject)
       \/ ReqPostRead(p)
       \/ ReqPostWrite(p)
       \/ \E s \in SessionInputs, id \in 0..now,
             a \in {"APPROVED", "REJECTED", "BOGUS"} :
            ReqPatchStart(p, s, id, a)
       \/ ReqPatchRead(p)
       \/ ReqPatchWrite(p)

SpecRequests == InitRequests /\ [][NextRequests]_vars

\* ------------------------------------------------------------------------
\* properties
\* ------------------------------------------------------------------------
TokenIds == 1..Len(issued)

\* the requests that are between the lookup and the delete of token t, or
\* past the delete, in a consume call
Consuming(p, t) ==
  /\ proc[p].op \in {"verify", "reset"}
  /\ proc[p].row.token = t

\* C1: for every issued verification or reset token, however the lookup and
\* delete steps of concurrent consume calls interleave, at most one consume
\* call returns the token's email
C1_AtMostOneReturn ==
  \A t \in TokenIds :
    issued[t].kind \in {"verify", "reset"} => issued[t].returns <= 1

\* two consume calls raced: one has returned the email, the other has looked
\* the row up before it was deleted and is about to delete
C1_Witness ==
  \E p \in Procs :
    /\ proc[p].op \in {"verify", "reset"} /\ proc[p].pc = "delete"
    /\ issued[proc[p].row.token].returns = 1

\* C2 (first part): a consume call that found the unexpired row, with no
\* other consume call of the same token in flight and none returned before,
\* still finds the row at its delete step, so it returns the email, which is
\* the email the token was issued for
C2_FirstSucceeds ==
  \A p \in Procs :
    (/\ proc[p].op \in {"verify", "reset"}
     /\ proc[p].pc = "delete"
     /\ issued[proc[p].row.token].returns = 0
     /\ \A q \in Procs \ {p} : ~Consuming(q, proc[p].row.token))
    => /\ \E r \in evTokens \cup prTokens : r.token = proc[p].row.token
       /\ proc[p].row.email = issued[proc[p].row.token].email

\* C2 (second part): once a consume call has returned the email of token t,
\* every consume call that arrives later with t finds no row and answers
\* with the invalid-token outcome, and no consume call gets past the lookup
C2_LaterNotFound ==
  \A t \in TokenIds :
    (issued[t].returns >= 1 /\ budget' = budget - 1)
    => /\ \A p \in Procs :
            proc'[p] # proc[p] => ~(/\ proc'[p].op \in {"verify", "reset"}
                                    /\ proc'[p].row.token = t)
       /\ (last'.op \in {"verify", "reset"} /\ last'.ctx.token = Some(t))
            => (/\ last'.outcome = "Invalid or expired token"
                /\ last'.ctx.row = Null)

\* C2: a token consumed sequentially before its expiry is returned by
\* exactly one consume call, with the email it was issued for, and every
\* later consume call with the same value fails as not found
C2_ExactlyOnce ==
  /\ [](C2_FirstSucceeds /\ C1_AtMostOneReturn)
  /\ [][C2_LaterNotFound]_vars

\* a consume call arrived after the token had been consumed and was answered
\* as not found
C2_Witness ==
  /\ last.op \in {"verify", "reset"}
  /\ last.outcome = "Invalid or expired token"
  /\ last.ctx.row = Null
  /\ last.ctx.token # Null
  /\ last.ctx.token[1] \in TokenIds
  /\ issued[last.ctx.token[1]].returns = 1

\* ---- C3
\* the responses to a redemption whose expiry check ran at time `at` on the
\* row it found
RedeemedRow ==
  IF last.op \in {"verify", "reset"} THEN last.ctx.row
  ELSE IF last.op = "register" THEN last.ctx.inv
  ELSE Null

\* C3: a token is redeemable only while the time is strictly before its
\* expiry: for every token kind a redemption attempted at a time equal to
\* or later than the expiry is not answered ok, and no account was created
\* or changed by a redemption whose expiry check ran at such a time
C3_RedeemableOnlyBeforeExpiry ==
  /\ \A e \in effects : e.at < e.expires
  /\ (RedeemedRow # Null /\ last.ctx.at >= RedeemedRow[1].expires)
       => last.outcome # "ok"

\* ---- C4
\* C4 (as claimed): a registration that arrives with an invite already
\* marked used is answered with the outcome the handler has for a used
\* invite
C4_LaterAttemptAlreadyUsed ==
  (last.op = "register" /\ last.ctx.late /\ last.outcome # "Missing fields")
    => last.outcome = "Invite invalid or expired"

\* the account a registration creates with an invite has the email and role
\* the invite was issued with
C4_CreatedAsIssued ==
  \A p \in Procs :
    (/\ proc[p].op = "register" /\ proc[p].pc = "create"
     /\ proc[p].invite # Null
     /\ proc'[p].op = "register" /\ proc'[p].pc = "mark")
    => \E u \in users' \ users :
         /\ u.id = proc'[p].id
         /\ u.email = issued[proc[p].invite[1]].email
         /\ u.role = issued[proc[p].invite[1]].role

\* an invite row marked used stays in the table, marked used
C4_MarkerRetained ==
  \A r \in invTokens :
    r.usedAt # Null
    => \E r2 \in invTokens' : r2.token = r.token /\ r2.usedAt # Null

\* after a successful registration with an invite the invite is marked
\* used; a registration that arrives with a used invite never gets past the
\* invite check and is answered as a duplicate email or an invalid invite
C4_ReplayFails ==
  /\ (last.op = "register" /\ last.outcome = "ok" /\ last.ctx.invite # Null)
       => \E r \in invTokens :
            r.token = last.ctx.invite[1] /\ r.usedAt # Null
  /\ (last.op = "register" /\ last.ctx.late)
       => last.outcome \in {"Missing fields", "Email already in use",
                            "Invite invalid or expired"}
  /\ \A p \in Procs :
       (proc[p].op = "register" /\ proc[p].late) => proc[p].pc = "invite"

\* C4 (amended): after a registration presenting a valid invite succeeds,
\* the account it created has the email and role the invite was issued
\* with, the invite row is retained with its consumed marker set, and every
\* later registration with the same token creates no account: it is
\* answered "Email already in use" or "Invite invalid or expired"
C4_InviteSingleUse ==
  /\ []C4_ReplayFails
  /\ [][C4_CreatedAsIssued /\ C4_MarkerRetained]_vars

\* a registration that arrived with a used invite was refused at the invite
\* check
C4_Witness ==
  /\ last.op = "register"
  /\ last.ctx.late
  /\ last.outcome = "Invite invalid or expired"
  /\ last.ctx.inv # Null
  /\ last.ctx.inv[1].usedAt # Null

\* ---- C5
\* C5: however concurrent registrations presenting the same invite
\* interleave, at most one account is ever created from that invite
C5_AtMostOneAccountPerInvite ==
  \A t \in TokenIds :
    Cardinality({e \in effects : e.kind = "invite" /\ e.token = t}) <= 1

\* ---- C6
\* C6: for an account in any state that has a credential set, authenticate
\* with an incorrect secret is answered exactly as authenticate for an email
\* that matches no account
C6_WrongSecretLooksUnknown ==
  (/\ last.op = "authorize"
   /\ last.ctx.found # Null
   /\ last.ctx.found[1].passwordHash # Null
   /\ last.ctx.password # ""
   /\ ~Compare(last.ctx.password, last.ctx.found[1].passwordHash[1]))
  => last.outcome = Authorize(last.ctx.email, last.ctx.password, Null)

\* ---- C7
\* C7: for an account created by registration and not soft-deleted,
\* authenticate with the registration secret fails with EmailNotVerified
\* while the verification timestamp is unset, and succeeds once it is set,
\* as long as the credential is still the one registered
C7_VerifiedGatesSignIn ==
  (/\ last.op = "authorize"
   /\ last.ctx.found # Null
   /\ origin[last.ctx.found[1].id] = "register"
   /\ last.ctx.found[1].deletedAt = Null
   /\ last.ctx.password = RegisterSecret)
  => IF last.ctx.found[1].emailVerified = Null
        THEN last.outcome = "EMAIL_NOT_VERIFIED"
     ELSE IF last.ctx.found[1].passwordHash = Some(Hash(RegisterSecret))
        THEN last.outcome = "ok"
     ELSE TRUE

\* a registered account signed in after its email was verified
C7_Witness ==
  /\ last.op = "authorize"
  /\ last.outcome = "ok"
  /\ origin[last.ctx.found[1].id] = "register"
  /\ \E e \in effects : e.kind = "verify" /\ e.user = last.ctx.found[1].id

\* ---- C8
C8_NoSignIn ==
  (/\ last.op = "authorize"
   /\ last.ctx.found # Null
   /\ \/ last.ctx.found[1].deletedAt # Null
      \/ last.ctx.found[1].passwordHash = Null)
  => last.outcome = "CredentialsSignin"

\* no step clears the deletion timestamp of an account
C8_DeletionStays ==
  \A u \in users : \A u2 \in users' :
    (u.deletedAt # Null /\ u2.id = u.id) => u2.deletedAt # Null

\* C8: authenticate fails with InvalidCredentials whenever the account is
\* soft-deleted or has no credential hash, even with the correct secret and
\* a verified email; a soft-deleted account stays soft-deleted, so no later
\* credential sign-in for it succeeds
C8_DeletedNeverSignsIn == []C8_NoSignIn /\ [][C8_DeletionStays]_vars

\* a verified, soft-deleted account was refused with its correct secret
C8_Witness ==
  /\ last.op = "authorize"
  /\ last.ctx.found # Null
  /\ last.ctx.found[1].deletedAt # Null
  /\ last.ctx.found[1].emailVerified # Null
  /\ last.ctx.found[1].passwordHash # Null
  /\ Compare(last.ctx.password, last.ctx.found[1].passwordHash[1])
  /\ last.outcome = "CredentialsSignin"

\* ---- C9
\* C9: a reset request with a non-empty email gets the same response whether
\* the email matches an active account, a soft-deleted account or none,
\* also when dispatching the reset message fails
C9_SameResponse ==
  (last.op = "reset-request" /\ last.ctx.email # "") => last.outcome = "ok"

\* ---- C10
GateAllowList(p) ==
  \/ p = P_Root
  \/ StartsWith(p, P_Login) \/ StartsWith(p, P_Register)
  \/ StartsWith(p, P_Reset) \/ StartsWith(p, P_Verify)

GateLocked ==
  /\ gate.decision # "none"
  /\ gate.claims # Null
  /\ gate.claims[1].deletedAt # Null
  /\ ~GateAllowList(gate.path)

\* C10 (as claimed): for every role and every path outside the allow-list,
\* a request whose claims carry a soft-delete marker is redirected to the
\* sign-in page with the access-denied indicator
C10_LockoutEveryPath == GateLocked => gate.decision = AccessDenied

\* C10 (amended): the same for every path the gate runs on, that is every
\* path but the static-asset paths the matcher excludes and the paths
\* next-auth answers itself (/api/auth, /_next, /favicon.ico); on the paths
\* the gate runs on, the lockout comes before the public-path rule and the
\* role rule
C10_LockoutMatchedPaths ==
  (GateLocked /\ Matched(gate.path) /\ ~HandledByLibrary(gate.path))
    => gate.decision = AccessDenied

\* an ADMIN with a soft-delete marker was turned away from a public path
C10_Witness ==
  /\ GateLocked
  /\ gate.path = P_ApiInviteInspect
  /\ gate.claims[1].role = "ADMIN"
  /\ gate.decision = AccessDenied

\* ---- C11
ElevatedPath(p) == StartsWith(p, P_Admin) \/ StartsWith(p, P_ApiAdmin)

GateLetThrough ==
  /\ gate.claims # Null
  /\ gate.claims[1].deletedAt = Null
  /\ HasRole(gate.claims[1].role, "EDITOR")

\* C11: for every path under /admin or /api/admin the gate lets the request
\* through if and only if claims are present, not locked, and the role
\* satisfies hasRole(role, EDITOR); every other request is redirected
C11_ElevatedNeedsEditor ==
  (gate.decision # "none" /\ ElevatedPath(gate.path))
    => /\ gate.decision = "next" <=> GateLetThrough
       /\ gate.decision \in {"next", AccessDenied, "redirect sign-in"}
       /\ gate.claims = Null => gate.decision = "redirect sign-in"

\* an OWNER was turned away from an admin API path
C11_Witness ==
  /\ gate.path = P_ApiAdminUsers
  /\ gate.claims # Null
  /\ gate.claims[1].role = "OWNER"
  /\ gate.claims[1].deletedAt = Null
  /\ gate.decision = AccessDenied

\* ---- C12
SignedInPath(p) ==
  \/ StartsWith(p, P_Dashboard) \/ StartsWith(p, P_Owner)
  \/ StartsWith(p, P_ApiListings)

\* C12: for every path under /dashboard, /owner or /api/listings the gate
\* redirects to sign-in when no claims are present and lets the request
\* through for present, non-locked claims of any role
C12_SignedInPaths ==
  (gate.decision # "none" /\ SignedInPath(gate.path))
    => /\ gate.claims = Null => gate.decision = "redirect sign-in"
       /\ (gate.claims # Null /\ gate.claims[1].deletedAt = Null)
            => gate.decision = "next"

\* a request without claims for an owner page was sent to sign-in
C12_Witness ==
  /\ gate.path = P_OwnerNew
  /\ gate.claims = Null
  /\ gate.decision = "redirect sign-in"

\* ---- C13
\* C13: for every path under neither /admin, /api/admin nor /dashboard,
\* /owner, /api/listings the gate passes the request through, both without
\* claims and with non-locked claims of any role
C13_OtherPathsPass ==
  (/\ gate.decision # "none"
   /\ ~ElevatedPath(gate.path) /\ ~SignedInPath(gate.path)
   /\ gate.claims # Null => gate.claims[1].deletedAt = Null)
  => gate.decision = "next"

\* a request without claims for a page outside every listed prefix passed
C13_Witness ==
  /\ gate.path = P_Profile
  /\ gate.claims = Null
  /\ gate.decision = "next"

\* ---- C14
\* the strict order VISITOR < OWNER < EDITOR < ADMIN
RoleOrder == <<"VISITOR", "OWNER", "EDITOR", "ADMIN">>

Position(r) == CHOOSE i \in 1..Len(RoleOrder) : RoleOrder[i] = r

KnownRoles == {RoleOrder[i] : i \in 1..Len(RoleOrder)}

\* C14: for all 16 pairs of the four roles hasRole(current, required) is
\* true exactly when current is at or above required in the order
\* VISITOR < OWNER < EDITOR < ADMIN; it is reflexive, transitive, and of two
\* distinct roles exactly one satisfies the other
C14_HasRoleIsTheOrder ==
  (rbac.called /\ {rbac.a, rbac.b, rbac.c} \subseteq KnownRoles)
    => /\ rbac.ab <=> Position(rbac.a) >= Position(rbac.b)
       /\ rbac.a = rbac.b => rbac.ab
       /\ (rbac.ab /\ rbac.bc) => rbac.ac
       /\ rbac.a # rbac.b => (rbac.ab <=> ~rbac.ba)

\* hasRole was called on VISITOR, EDITOR and ADMIN in rising order
C14_Witness ==
  /\ rbac.called
  /\ rbac.a = "VISITOR" /\ rbac.b = "EDITOR" /\ rbac.c = "ADMIN"
  /\ ~rbac.ab /\ rbac.ba /\ ~rbac.bc /\ ~rbac.ac

\* ---- C15
\* C15 (as claimed): for a current value that is not one of the four roles
\* and every required role, hasRole answers as it does for VISITOR
C15_UnknownIsVisitor ==
  (rbac.called /\ rbac.a \notin KnownRoles /\ rbac.b \in KnownRoles)
    => (rbac.ab <=> HasRole("VISITOR", rbac.b))

\* C15 (amended): for a current value that is not one of the four roles,
\* hasRole is false for every required role, VISITOR included, so it is
\* never true for a required role above VISITOR; it is also false whenever
\* the required value is not a role
C15_UnknownSatisfiesNothing ==
  (rbac.called /\ (rbac.a \notin KnownRoles \/ rbac.b \notin KnownRoles))
    => ~rbac.ab

\* hasRole refused a malformed current role for the VISITOR requirement
C15_Witness ==
  /\ rbac.called
  /\ rbac.a = "BOGUS" /\ rbac.b = "VISITOR"
  /\ ~rbac.ab

\* ---- C16
\* the answers of the session-authenticated handlers follow from the claims
\* bundle presented, whatever the account record says by then
C16_BundleDecides ==
  /\ last.op \in {"hard-delete", "invite"}
       => /\ last.outcome = "Unauthorized" <=> last.ctx.session = Null
          /\ last.outcome = "Forbidden"
               <=> (/\ last.ctx.session # Null
                    /\ ~HasRole(last.ctx.session[1].role, "ADMIN"))
  /\ last.op = "self-delete"
       => (last.outcome = "Unauthorized" <=> last.ctx.session = Null)

\* no step changes or withdraws a claims bundle once minted
C16_BundlesKept == \A s \in sessions : s \in sessions'

\* C16: after an account is soft-deleted or hard-deleted, every claims
\* bundle minted before keeps its role and its null soft-delete marker, and
\* the gate and the handlers decide on that bundle as they did before
C16_StaleClaims == []C16_BundleDecides /\ [][C16_BundlesKept]_vars

\* an admin whose account has since been soft-deleted issued an invite with
\* the bundle minted before, which the gate still lets through
C16_Witness ==
  /\ last.op = "invite" /\ last.outcome = "ok"
  /\ last.ctx.session[1] \in sessions
  /\ last.ctx.session[1].deletedAt = Null
  /\ \E u \in UserById(last.ctx.session[1].id) : u.deletedAt # Null
  /\ WithAuth(last.ctx.session, P_ApiAdminUsers) = "next"

\* ---- C17
\* the step of callbacks.jwt that mints the claims of a new session
C17_MintedFromRecord ==
  \A p \in Procs :
    (/\ proc[p].op = "signin" /\ proc[p].pc = "jwt"
     /\ proc'[p] = Idle)
    => \A u \in UserById(proc[p].user.id) :
         sessions' = sessions \cup
           {[id |-> u.id, role |-> u.role, deletedAt |-> u.deletedAt]}

\* C17: whenever a session is newly established for an account that
\* exists, the minted claims' id, role and soft-delete marker are those of
\* the account record as read at mint time, not those of the sign-in result
C17_ClaimsFromRecord == [][C17_MintedFromRecord]_vars

\* claims were minted with the soft-delete marker of an account that was
\* soft-deleted after authorize had accepted the sign-in
C17_Witness ==
  \E s \in sessions :
    /\ s.deletedAt # Null
    /\ origin[s.id] = "seed"
    /\ \E u \in UserById(s.id) : u.deletedAt = s.deletedAt

\* ---- C18
\* lower-casing and trimming, on the emails accounts are created with
LowerTrim(e) == IF e = " A@X.com" THEN "a@x.com" ELSE e

\* C18: in every reachable state, however self-registrations and admin
\* account creations interleave, no two account records have emails that
\* are equal after lower-casing and trimming; a soft-deleted account keeps
\* its email taken, since its record stays in the table
C18_UniqueEmails ==
  \A u \in users : \A v \in users :
    LowerTrim(u.email) = LowerTrim(v.email) => u = v

\* an admin account creation was refused because a soft-deleted account
\* holds the email
C18_Witness ==
  /\ last.op = "admin-create"
  /\ last.outcome = "Email already in use"
  /\ \E u \in users : u.email = last.ctx.email /\ u.deletedAt # Null

\* ---- C19
\* no answer to a caller is an exception raised by an audit write
C19_NeverRaises == last.outcome # "audit exception"

\* an audited operation that answers ok has had its effect on accounts and
\* tokens, also when the audit write failed
C19_EffectDone ==
  /\ (last.op = "self-delete" /\ last.outcome = "ok")
       => \A u \in UserById(last.ctx.session[1].id) : u.deletedAt # Null
  /\ (last.op = "hard-delete" /\ last.outcome = "ok")
       => UserById(last.ctx.id) = {}
  /\ (last.op = "verify" /\ last.outcome = "ok")
       => /\ EvByToken(last.ctx.token[1]) = {}
          /\ \A u \in UserById(last.ctx.id) : u.emailVerified # Null
  /\ (last.op = "reset" /\ last.outcome = "ok")
       => /\ PrByToken(last.ctx.token[1]) = {}
          /\ \A u \in UserById(last.ctx.id) :
               u.passwordHash = Some(Hash(ResetSecret))
  /\ (last.op = "register" /\ last.outcome = "ok")
       => /\ last.ctx.id \in 2..Len(origin)
          /\ origin[last.ctx.id] = "register"
  /\ (last.op = "admin-create" /\ last.outcome = "ok")
       => UserByEmail(last.ctx.email) # {}

\* every sign-in that authorize accepted mints its claims: a process that
\* leaves the jwt step has added a bundle
C19_SignInCompletes ==
  \A p \in Procs :
    (proc[p].op = "signin" /\ proc'[p] = Idle)
      => Jwt(proc[p].user) \in sessions'

\* C19: for every operation that emits an audit event, the outcome and the
\* effect on accounts and tokens are the same whether the audit write
\* succeeds or fails; a failing audit write never raises into the caller
C19_AuditNeverFails ==
  /\ [](C19_NeverRaises /\ C19_EffectDone)
  /\ [][C19_SignInCompletes]_vars

\* while the audit writes fail, an account was soft-deleted through a
\* session minted at sign-in, and the caller was answered ok
C19_Witness ==
  /\ auditFails
  /\ last.op = "self-delete" /\ last.outcome = "ok"
  /\ \E u \in UserById(last.ctx.session[1].id) : u.deletedAt # Null

\* ---- C20
\* C20: every failure of token redemption, email verification, password
\* reset and registration is answered with one of the handler's own error
\* outcomes and never with an exception thrown by the store, also when two
\* redemptions of a token race, when two registrations of an email race and
\* when the token's account was hard-deleted before the redemption
C20_NoRawStorageException ==
  last.op \in {"verify", "reset", "register"} => last.outcome # "exception"

\* ---- C21
\* the rows of the three token tables
TokenRows == evTokens \cup prTokens \cup invTokens

\* a step that issues a token leaves every row there was in place
C21_IssueKeepsRows ==
  nextTok' # nextTok => \A r \in TokenRows : r \in (TokenRows)'

\* the row of a verification or reset token that no consume call has
\* returned is still in its table
C21_UnconsumedRowPresent ==
  \A t \in TokenIds :
    (issued[t].kind \in {"verify", "reset"} /\ issued[t].returns = 0)
      => \E r \in evTokens \cup prTokens : r.token = t

\* C21: issuing a token leaves every previously issued token unchanged: an
\* earlier unexpired, unconsumed token of the same kind for the same email
\* is still there to be redeemed after a newer one has been issued and after
\* the newer one has been redeemed
C21_IssueLeavesOlderTokens ==
  []C21_UnconsumedRowPresent /\ [][C21_IssueKeepsRows]_vars

\* a reset token was redeemed after a newer reset token for the same email
\* had been issued and redeemed
C21_Witness ==
  /\ last.op = "reset" /\ last.outcome = "ok"
  /\ \E t \in TokenIds :
       /\ t > last.ctx.token[1]
       /\ issued[t].kind = "reset"
       /\ issued[t].email = issued[last.ctx.token[1]].email
       /\ issued[t].returns = 1

\* ---- C22
\* the step applies a mutation to an account that is already in the state the
\* mutation produces: a soft delete of a soft-deleted account, a hard delete
\* (past the admin check) of an account id that was handed out and removed,
\* a verification update of a verified account, a credential update with the
\* secret the account already has
C22_SecondApplication ==
  \/ /\ last'.op = "self-delete" /\ last'.outcome # "Unauthorized"
     /\ budget' # budget
     /\ \E u \in UserById(last'.ctx.session[1].id) : u.deletedAt # Null
  \/ /\ last'.op = "hard-delete"
     /\ last'.outcome \notin {"Unauthorized", "Forbidden"}
     /\ budget' # budget
     /\ last'.ctx.id \in 2..(nextId - 1) /\ UserById(last'.ctx.id) = {}
  \/ \E p \in Procs :
       /\ proc[p] # Idle /\ proc[p].op = "verify" /\ proc[p].pc = "update"
       /\ proc'[p] # proc[p]
       /\ \E u \in UserByEmail(proc[p].row.email) : u.emailVerified # Null
  \/ \E p \in Procs :
       /\ proc[p] # Idle /\ proc[p].op = "reset"
       /\ proc[p].pc \in {"update1", "update2"}
       /\ proc'[p] # proc[p]
       /\ \E u \in UserById(proc[p].id) :
            u.passwordHash = Some(<<"bcrypt", proc[p].password>>)

\* C22: set verified, set credential secret, soft delete and hard delete,
\* applied a second time to the same account, succeed again and leave the
\* accounts as they were after the first application
C22_RepeatIsNoOp ==
  [][C22_SecondApplication =>
       /\ last'.outcome \in {"ok", "none"}
       /\ users' = users]_vars

\* ---- C23
\* the step in which registration request p creates its account
C23_Creates(p) ==
  /\ proc[p] # Idle /\ proc[p].op = "register" /\ proc[p].pc = "create"
  /\ nextId' = nextId + 1 /\ proc'[p] # proc[p]

\* the invite row the request read is that of an invite token which, when
\* the handler checked it, had not reached its expiry, was not marked used,
\* was issued for the request's normalized email and carries role r
C23_ValidInvite(p, r) ==
  /\ proc[p].invite # Null /\ proc[p].inv # Null
  /\ proc[p].inv[1].token = proc[p].invite[1]
  /\ issued[proc[p].invite[1]].kind = "invite"
  /\ proc[p].at < proc[p].inv[1].expires
  /\ proc[p].inv[1].usedAt = Null
  /\ proc[p].inv[1].email = proc[p].email
  /\ proc[p].inv[1].role = r

\* C23: an account created by public registration has role EDITOR or ADMIN
\* only if the request presented an invite that was unexpired, unused,
\* issued for the same normalized email and carried that role; without such
\* an invite the role is VISITOR, or OWNER when the request asked for it
C23_ElevatedOnlyByInvite ==
  [][\A p \in Procs : C23_Creates(p) =>
       \A u \in users' \ users :
         /\ u.role \in {"EDITOR", "ADMIN"} => C23_ValidInvite(p, u.role)
         /\ ~C23_ValidInvite(p, u.role) =>
              \/ u.role = "VISITOR"
              \/ u.role = "OWNER" /\ proc[p].as = "owner"]_vars

\* ---- C24
\* C24: a verification or password-reset token only ever changes the account
\* that held its email when the token was issued: after that account is
\* hard-deleted and a new one is registered with the same email, redeeming
\* the old token neither verifies the new account nor changes its credential
C24_OnlyTheIssuedForAccount ==
  \A e \in effects :
    e.kind \in {"verify", "reset"} => e.user = issued[e.token].holder

\* ---- C25
\* C25: an account created by public registration has a verification
\* timestamp only if a verification token issued for its email was consumed
\* earlier and the verify handler then updated the account; registration,
\* invite acceptance and password reset never set the timestamp
C25_VerifiedOnlyByToken ==
  \A u \in users :
    (origin[u.id] = "register" /\ u.emailVerified # Null) =>
      /\ \E t \in TokenIds :
           /\ issued[t].kind = "verify" /\ issued[t].email = u.email
           /\ issued[t].returns >= 1
      /\ \E e \in effects :
           /\ e.kind = "verify" /\ e.user = u.id
           /\ issued[e.token].kind = "verify"
           /\ issued[e.token].email = u.email

\* a registered account was verified by redeeming its token
C25_Witness ==
  /\ last.op = "verify" /\ last.outcome = "ok"
  /\ \E u \in UserById(last.ctx.id) :
       origin[u.id] = "register" /\ u.emailVerified # Null

\* ---- C26
\* the admin user-management operations
C26_AdminOps ==
  {"list-users", "invite", "admin-create", "hard-delete", "set-status"}

\* accounts, tokens and statuses are as they were
C26_NothingChanged ==
  /\ users' = users /\ status' = status
  /\ evTokens' = evTokens /\ prTokens' = prTokens /\ invTokens' = invTokens

\* C26: list users, issue invite, create user, change user status and
\* hard-delete user take effect only when the caller's claims carry role
\* ADMIN: with other claims the answer is Forbidden, with no session it is
\* Unauthorized, and in both cases no account and no token changes
C26_AdminOnly ==
  [][/\ (last'.op \in C26_AdminOps /\ last'.ctx.session = Null) =>
          (last'.outcome = "Unauthorized" /\ C26_NothingChanged)
     /\ (last'.op \in C26_AdminOps /\ last'.ctx.session # Null
           /\ last'.ctx.session[1].role # "ADMIN") =>
          (last'.outcome = "Forbidden" /\ C26_NothingChanged)
     /\ ~C26_NothingChanged =>
          /\ last'.op \in C26_AdminOps
          /\ last'.ctx.session # Null
          /\ last'.ctx.session[1].role = "ADMIN"]_vars

\* a signed-in editor called an admin user operation and got Forbidden
C26_Witness ==
  /\ last.op \in C26_AdminOps /\ last.outcome = "Forbidden"
  /\ last.ctx.session # Null /\ last.ctx.session[1].role = "EDITOR"

\* ---- C27
\* a step of reset request p leaves every account in place and changes at
\* most the credential hash of the account with the token's email, to the
\* hash of the new secret
C27_OnlyTheHash ==
  \A p \in Procs :
    (proc[p] # Idle /\ proc[p].op = "reset" /\ proc'[p] # proc[p]) =>
      /\ {u.id : u \in users'} = {u.id : u \in users}
      /\ \A u \in users : \E v \in users' :
           /\ v.id = u.id
           /\ [v EXCEPT !.passwordHash = u.passwordHash] = u
           /\ v # u =>
                /\ u.email = proc[p].row.email
                /\ v.passwordHash = Some(<<"bcrypt", proc[p].password>>)

\* once the reset has answered ok, authorize on the account accepts the new
\* secret exactly when the account is verified and not soft-deleted, and
\* accepts no other secret
C27_AfterReset ==
  (last.op = "reset" /\ last.outcome = "ok") =>
    \A u \in UserById(last.ctx.id) :
      /\ u.email = last.ctx.row[1].email
      /\ Authorize(u.email, ResetSecret, Some(u)) = "ok"
           <=> (u.emailVerified # Null /\ u.deletedAt = Null)
      /\ \A s \in {RegisterSecret, AdminSecret} :
           Authorize(u.email, s, Some(u)) # "ok"

\* C27: a successful password reset changes only the credential hash of the
\* account whose email the token carries; its role, verification timestamp
\* and soft-delete marker and every other account are unchanged; afterwards
\* authenticate succeeds with the new secret only if the account was already
\* verified, and fails with the old secret
C27_ResetChangesOnlyTheHash ==
  []C27_AfterReset /\ [][C27_OnlyTheHash]_vars

\* a reset answered ok for a verified account, which now signs in with the
\* new secret
C27_Witness ==
  /\ last.op = "reset" /\ last.outcome = "ok"
  /\ \E u \in UserById(last.ctx.id) :
       /\ u.emailVerified # Null
       /\ Authorize(u.email, ResetSecret, Some(u)) = "ok"

\* ---- C28
\* reset request p has consumed its token and now looks the account up, and
\* there is no account with the token's email or it is soft-deleted
C28_LooksUpGoneAccount(p) ==
  /\ proc[p] # Idle /\ proc[p].op = "reset" /\ proc[p].pc = "find"
  /\ proc'[p] # proc[p]
  /\ \A u \in users : u.email = proc[p].row.email => u.deletedAt # Null

\* the request presents the value of a reset token that a consume call has
\* already returned
C28_Retry ==
  /\ last'.op = "reset" /\ budget' # budget
  /\ last'.ctx.token # Null /\ last'.ctx.token[1] \in TokenIds
  /\ issued[last'.ctx.token[1]].kind = "reset"
  /\ issued[last'.ctx.token[1]].returns >= 1

\* C28: a reset presenting a valid token whose account is missing or
\* soft-deleted is answered account-not-available and changes no account,
\* but the token is already removed: a retry with the same value is answered
\* as an invalid token
C28_TokenSpentOnUnavailableAccount ==
  [][/\ \A p \in Procs : C28_LooksUpGoneAccount(p) =>
          /\ last'.op = "reset"
          /\ last'.outcome = "Account not available"
          /\ users' = users
          /\ \A r \in prTokens' : r.token # proc[p].row.token
          /\ issued[proc[p].row.token].returns = 1
     /\ C28_Retry =>
          (last'.outcome = "Invalid or expired token" /\ users' = users)]_vars

\* the retry: a reset token that was consumed without any account change,
\* whose account is soft-deleted or gone, is presented again and refused
C28_Witness ==
  /\ last.op = "reset" /\ last.outcome = "Invalid or expired token"
  /\ \A p \in Procs : proc[p] = Idle
  /\ last.ctx.token # Null /\ last.ctx.token[1] \in TokenIds
  /\ LET t == last.ctx.token[1]
     IN /\ issued[t].kind = "reset" /\ issued[t].returns = 1
        /\ \A e \in effects : e.token # t
        /\ \A u \in users : u.email = issued[t].email => u.deletedAt # Null

\* ---- C29
\* the answers of a registration that did not succeed
C29_Rejections ==
  {"Email already in use", "Invite invalid or expired",
   "Invite email mismatch", "exception"}

\* C29: a registration that presents an invite and is rejected (email in
\* use, invite not found, expired, already used or issued for another email)
\* has created no account and leaves every invite row, its consumed marker
\* included, as it was, so an invite that was valid stays redeemable
C29_RejectedLeavesInvite ==
  [][/\ (last'.op = "register" /\ last'.outcome \in C29_Rejections
           /\ last'.ctx.invite # Null) =>
          /\ users' = users /\ invTokens' = invTokens
          /\ last'.ctx.id = 0
     /\ \A p \in Procs :
          (proc[p] # Idle /\ proc[p].op = "register" /\ proc[p].id = 0
            /\ proc[p].invite # Null /\ nextId' = nextId) =>
              invTokens' = invTokens \/ proc'[p] = proc[p]]_vars

\* a registration presenting a valid invite under another email was
\* rejected, and the invite row is still there, unused and unexpired
C29_Witness ==
  /\ last.op = "register" /\ last.outcome = "Invite email mismatch"
  /\ last.ctx.inv # Null
  /\ last.ctx.inv[1] \in invTokens
  /\ last.ctx.inv[1].usedAt = Null
  /\ now < last.ctx.inv[1].expires
  /\ UserByEmail(last.ctx.inv[1].email) = {}

\* ---- C30
\* the positions of the ok answers of the request store
AckIds == 1..Len(acks)

\* C30: after any sequence of POST and PATCH operations on the file-backed
\* request store, interleavings of their reads and writes of the index
\* included, every request acknowledged with ok is in the index, and every
\* acknowledged PATCH action is on its item unless a later acknowledged PATCH
\* of that item replaced it
C30_AcknowledgedIsStored ==
  \A k \in AckIds :
    /\ acks[k].kind = "post" =>
         \E i \in 1..Len(index) :
           /\ index[i].id = acks[k].item.id
           /\ index[i].subject = acks[k].item.subject
    /\ (acks[k].kind = "patch"
          /\ \A j \in AckIds :
               (j > k /\ acks[j].kind = "patch")
                 => acks[j].item.id # acks[k].item.id) =>
         \E i \in 1..Len(index) :
           /\ index[i].id = acks[k].item.id
           /\ index[i].subject = acks[k].item.subject
           /\ index[i].action = acks[k].item.action

====
